---- MODULE Spec2Model ----
(***************************************************************************)
(* A model of the financial-statement RAG backend:                         *)
(*   - RAGPipeline  (backend/services/rag_pipeline.py): retrieval filter,  *)
(*     complete mode (generate_answer) and streaming mode (stream_answer)  *)
(*     with its <think> suppression and its retry loop;                    *)
(*   - PDFProcessor (backend/services/pdf_processor.py): page extraction,  *)
(*     heading partition, table tagging and sentence re-splitting.         *)
(* Text is modelled as a sequence of one-character strings, so substring   *)
(* search, split, strip and join are computed as Python computes them.     *)
(***************************************************************************)
EXTENDS Integers, Sequences, FiniteSets, TLC

VARIABLES
    \* ---- RAGPipeline ----
    pc,                 \* position of the running request
    results,            \* what VectorStoreService.similarity_search returned
    docs_with_scores,   \* _retrieve_documents' result
    context,            \* _generate_context's result
    sources,            \* the sources list
    attempt,            \* loop variable of `for attempt in range(max_retries)`
    answer,             \* accumulated answer of the current attempt
    inside_think_block, \* the THINKING flag
    think_buffer,       \* buffer of text received while THINKING
    chunk,              \* the chunk last received from the model collaborator
    token,              \* the token last extracted from a chunk
    out,                \* fragments yielded to the caller so far, in order
    calls,              \* number of generate(...) calls made
    failures,           \* number of attempts that ended in the except branch
    sleeps,             \* number of time.sleep(2) calls made
    fed,                \* number of chunks the model collaborator has produced
    result,             \* generate_answer's return value
    raised,             \* the exception that left the request, if any
    llm_text,           \* the text the model collaborator generates in complete mode
    received,           \* history: the tokens extracted during the current attempt
    base,               \* history: Len(out) when the current attempt started
    \* ---- PDFProcessor ----
    entry,              \* the method called: "process_pdf" or "split_into_chunks"
    ppc,                \* position of the running call
    chunk_size,         \* settings.chunk_size
    pdf_pages,          \* per page, what pdfplumber extracts: text and table strings
    pages_content,      \* extract_text_from_pdf's result, split_into_chunks' input
    page_no,            \* 1-based position of `for page in pages_content`
    heading_chunks,     \* _split_by_headings(content) of the current page
    table_no,           \* 1-based position of `for table_str in tables`
    chunk_no,           \* 1-based position of `for idx, chunk in enumerate(heading_chunks)`
    documents,          \* the Documents emitted so far
    origin              \* history: for each Document, what it was made from

ragvars == <<pc, results, docs_with_scores, context, sources, attempt, answer,
             inside_think_block, think_buffer, chunk, token, out, calls,
             failures, sleeps, fed, result, raised, llm_text, received, base>>

pdfvars == <<entry, ppc, chunk_size, pdf_pages, pages_content, page_no, heading_chunks,
             table_no, chunk_no, documents, origin>>

vars == <<ragvars, pdfvars>>

-----------------------------------------------------------------------------
(* Bounds of the model *)

\* chunks the model collaborator produces during one request, all attempts
MaxChunks == 4
\* pairs the vector store returns for one query
MaxDocs == 3
\* the smallest settings.chunk_size the segmentation runs use
SmallChunkSize == 4

-----------------------------------------------------------------------------
(* Python string operations on sequences of characters *)

\* s[i:] for a 1-based i
Drop(s, n) == SubSeq(s, n + 1, Len(s))

\* s[:n]
Take(s, n) == SubSeq(s, 1, n)

\* s.find(sub) + 1: the 1-based position of the first occurrence, 0 if none
IndexOf(s, sub) ==
    LET hits == {i \in 1..(Len(s) - Len(sub) + 1) : SubSeq(s, i, i + Len(sub) - 1) = sub}
    IN  IF hits = {} THEN 0 ELSE CHOOSE i \in hits : \A j \in hits : i <= j

\* sub in s
Contains(s, sub) == \E i \in 1..(Len(s) - Len(sub) + 1) : SubSeq(s, i, i + Len(sub) - 1) = sub

\* s.split(sep)[0]
BeforeFirst(s, sep) == IF Contains(s, sep) THEN Take(s, IndexOf(s, sep) - 1) ELSE s

\* s.split(sep, 1): one or two parts
SplitOnce(s, sep) ==
    IF Contains(s, sep)
    THEN <<Take(s, IndexOf(s, sep) - 1), Drop(s, IndexOf(s, sep) + Len(sep) - 1)>>
    ELSE <<s>>

RECURSIVE Join(_, _)
\* sep.join(parts)
Join(parts, sep) ==
    IF parts = <<>> THEN <<>>
    ELSE IF Len(parts) = 1 THEN parts[1]
    ELSE parts[1] \o sep \o Join(Tail(parts), sep)

RECURSIVE Concat(_)
\* "".join(parts)
Concat(parts) == IF parts = <<>> THEN <<>> ELSE parts[1] \o Concat(Tail(parts))

StartsWith(s, p) == Len(s) >= Len(p) /\ Take(s, Len(p)) = p

-----------------------------------------------------------------------------
(* RAGPipeline: constants *)

\* "<think>" and "</think>"
OpenMarker == <<"<","t","h","i","n","k",">">>
CloseMarker == <<"<","/","t","h","i","n","k",">">>

\* "[END_META]" and the terminal error fragment
EndMetaTag == <<"[","E","N","D","_","M","E","T","A","]">>
ErrorFragment ==
    <<"[","E","r","r","o","r",":"," ","L","L","M"," ","s","e","r","v","i","c","e"," ",
      "u","n","a","v","a","i","l","a","b","l","e"," ","o","r"," ","r","e","t","u","r","n",
      "e","d"," ","n","o"," ","a","n","s","w","e","r","]">>

max_retries == 5
\* settings.chunk_size when CHUNK_SIZE is not set
DefaultChunkSize == 1000
\* settings.similarity_threshold = 0.3; scores are in tenths
similarity_threshold == 3

\* Python's None
NoValue == "None"

\* generate_answer has not returned
NoResult == [returned |-> FALSE, answer |-> <<>>, sources |-> <<>>, processing_time |-> 0]

-----------------------------------------------------------------------------
(* Inputs: what the collaborators can hand to the pipeline *)

\* langchain Documents held by the vector store
EmptyMeta == [k \in {} |-> 0]
Doc1 == [page_content |-> <<"R","e","v","e","n","u","e"," ","2","0","2","3">>,
         metadata |-> [page |-> 1]]
Doc2 == [page_content |-> <<"A","s","s","e","t","s">>, metadata |-> EmptyMeta]
Docs == {Doc1, Doc2}

\* similarity scores in tenths: below, at and above the threshold
Scores == {2, 3, 5, 9}

Pair(d, s) == [doc |-> d, score |-> s]

RECURSIVE SeqsUpTo(_, _)
\* all sequences over S of length at most n
SeqsUpTo(S, n) ==
    IF n = 0 THEN {<<>>}
    ELSE LET shorter == SeqsUpTo(S, n - 1)
         IN  shorter \cup {Append(q, x) : q \in shorter, x \in S}

\* results of similarity_search(query, k): at most MaxDocs scored documents
ResultSets == SeqsUpTo({Pair(d, s) : d \in Docs, s \in Scores}, MaxDocs)

\* tokens the language model can emit
Tok_hello == <<"h","e","l","l","o"," ">>
Tok_open == <<"<","t","h","i","n","k",">","r","e","a","s","o","n","i","n","g">>
Tok_more == <<".",".",".","m","o","r","e">>
Tok_close == <<"<","/","t","h","i","n","k",">"," ","w","o","r","l","d">>
Tok_preopen == <<"x","<","t","h","i","n","k",">">>
Tok_halfclose == <<"<","/","t","h","i">>
Tok_restclose == <<"n","k",">"," ","o","k">>
Tok_empty == <<>>
Tokens == {Tok_hello, Tok_open, Tok_more, Tok_close, Tok_preopen, Tok_halfclose,
           Tok_restclose, Tok_empty}

\* chunk shapes: a dict (with or without a "response" key) or an object
\* (with or without a response attribute)
DictChunk(t) == [kind |-> "dict", has_response |-> TRUE, response |-> t]
ObjChunk(t) == [kind |-> "object", has_response |-> TRUE, response |-> t]
BadDict == [kind |-> "dict", has_response |-> FALSE, response |-> <<>>]
BadObj == [kind |-> "object", has_response |-> FALSE, response |-> <<>>]
NoChunk == [kind |-> "none", has_response |-> FALSE, response |-> <<>>]
Chunks == {DictChunk(t) : t \in Tokens} \cup {ObjChunk(Tok_hello), BadDict, BadObj}

\* wall-clock time spent outside time.sleep, in milliseconds
WorkMillis == {40, 1234}

-----------------------------------------------------------------------------
(* RAGPipeline: pure parts *)

KeepScoreStrict(score) == score > similarity_threshold

\* the filter condition of _retrieve_documents
KeepScore(score) == score >= similarity_threshold

\* rag_pipeline.py _retrieve_documents: the filter over the store's results
_retrieve_documents(res) == SelectSeq(res, LAMBDA p : KeepScore(p.score))

\* rag_pipeline.py _generate_context
_generate_context(docs) ==
    Join([i \in 1..Len(docs) |-> docs[i].page_content], <<"\n","\n">>)

\* meta.get("page", 0)
MetaGet(meta, key, default) == IF key \in DOMAIN meta THEN meta[key] ELSE default

\* one entry of the sources list
Source(p) == [content |-> p.doc.page_content,
              page |-> MetaGet(p.doc.metadata, "page", 0),
              score |-> p.score,
              metadata |-> p.doc.metadata]

\* the sources list built from docs_with_scores
BuildSources(dws) == [i \in 1..Len(dws) |-> Source(dws[i])]

\* round(seconds, 2), from milliseconds to hundredths of a second
Round2(ms) == (ms + 5) \div 10

RECURSIVE SourcesJson(_)
SourcesJson(srcs) ==
    IF srcs = <<>> THEN <<>>
    ELSE <<"{">> \o srcs[1].content
         \o <<",", ToString(srcs[1].page), ",", ToString(srcs[1].score), "}">>
         \o SourcesJson(Tail(srcs))

\* json.dumps({"sources": sources, "processing_time": processing_time})
MetaJson(srcs, processing_time) ==
    <<"{", "[">> \o SourcesJson(srcs) \o <<"]", ",", ToString(processing_time), "}">>

\* the final fragment f"[END_META]{meta}"
EndMetaFragment(srcs, processing_time) == EndMetaTag \o MetaJson(srcs, processing_time)

\* isinstance(chunk, dict) and "response" in chunk, or hasattr(chunk, "response")
ChunkHasToken(c) ==
    \/ c.kind = "dict" /\ c.has_response
    \/ c.kind = "object" /\ c.has_response

\* the body of `for chunk in response` after the token is extracted:
\* the new answer, flag and buffer, and the fragments yielded (none or one)
StepToken(ans, inside, buf, tok) ==
    IF Contains(tok, OpenMarker)
    THEN LET before_think == BeforeFirst(tok, OpenMarker)
         IN  [answer |-> ans \o before_think,
              inside |-> TRUE,
              buffer |-> buf,
              fwd |-> IF before_think # <<>> THEN <<before_think>> ELSE <<>>]
    ELSE IF inside
    THEN LET nb == buf \o tok
         IN  IF Contains(nb, CloseMarker)
             THEN LET after_think == SplitOnce(nb, CloseMarker)
                      emit == Len(after_think) > 1 /\ after_think[2] # <<>>
                  IN  [answer |-> IF emit THEN ans \o after_think[2] ELSE ans,
                       inside |-> FALSE,
                       buffer |-> <<>>,
                       fwd |-> IF emit THEN <<after_think[2]>> ELSE <<>>]
             ELSE [answer |-> ans, inside |-> TRUE, buffer |-> nb, fwd |-> <<>>]
    ELSE IF tok # <<>>
    THEN [answer |-> ans \o tok, inside |-> FALSE, buffer |-> buf, fwd |-> <<tok>>]
    ELSE [answer |-> ans, inside |-> FALSE, buffer |-> buf, fwd |-> <<>>]

-----------------------------------------------------------------------------
(* PDFProcessor: Python string operations *)

\* the characters \s matches and str.strip removes
Whitespace == {" ", "\n", "\t", "\r"}
Digits == {"0", "1", "2", "3", "4", "5", "6", "7", "8", "9"}

UpperSeq ==
    <<"A","B","C","D","E","F","G","H","I","J","K","L","M","N","O","P","Q","R","S","T","U","V","W","X","Y","Z">>

LowerSeq ==
    <<"a","b","c","d","e","f","g","h","i","j","k","l","m","n","o","p","q","r","s","t","u","v","w","x","y","z">>

UpperChars == {UpperSeq[i] : i \in 1..Len(UpperSeq)}
LowerChars == {LowerSeq[i] : i \in 1..Len(LowerSeq)}

LowerChar(c) ==
    IF c \in UpperChars
    THEN LowerSeq[CHOOSE i \in 1..Len(UpperSeq) : UpperSeq[i] = c]
    ELSE c

\* s.lower()
Lower(s) == [i \in 1..Len(s) |-> LowerChar(s[i])]

\* s.strip()
Strip(s) ==
    LET solid == {i \in 1..Len(s) : s[i] \notin Whitespace}
    IN  IF solid = {} THEN <<>>
        ELSE SubSeq(s, CHOOSE i \in solid : \A j \in solid : i <= j,
                       CHOOSE i \in solid : \A j \in solid : i >= j)

RECURSIVE CollapseFrom(_, _)
CollapseFrom(s, i) ==
    IF i > Len(s) THEN <<>>
    ELSE IF s[i] \in Whitespace
    THEN (IF i > 1 /\ s[i - 1] \in Whitespace THEN <<>> ELSE <<" ">>) \o CollapseFrom(s, i + 1)
    ELSE <<s[i]>> \o CollapseFrom(s, i + 1)

\* re.sub(r"\s+", " ", s)
CollapseWhitespace(s) == CollapseFrom(s, 1)

RECURSIVE SplitLines(_)
\* s.split("\n")
SplitLines(s) ==
    IF Contains(s, <<"\n">>)
    THEN <<Take(s, IndexOf(s, <<"\n">>) - 1)>> \o SplitLines(Drop(s, IndexOf(s, <<"\n">>)))
    ELSE <<s>>

\* len(s.split())
WordCount(s) ==
    Cardinality({i \in 1..Len(s) :
                    s[i] \notin Whitespace /\ (i = 1 \/ s[i - 1] \in Whitespace)})

\* s.isupper()
IsUpper(s) ==
    /\ \E i \in 1..Len(s) : s[i] \in UpperChars
    /\ \A i \in 1..Len(s) : s[i] \notin LowerChars

\* re.match(r"^(\d+\.|[A-Z][A-Z\s\-:]+)$", s)
MatchesHeadingPattern(s) ==
    \/ /\ Len(s) >= 2
       /\ s[Len(s)] = "."
       /\ \A i \in 1..(Len(s) - 1) : s[i] \in Digits
    \/ /\ Len(s) >= 2
       /\ s[1] \in UpperChars
       /\ \A i \in 2..Len(s) : s[i] \in UpperChars \cup Whitespace \cup {"-", ":"}

\* sum(len(x) for x in parts)
RECURSIVE SumLen(_)
SumLen(parts) == IF parts = <<>> THEN 0 ELSE Len(parts[1]) + SumLen(Tail(parts))

-----------------------------------------------------------------------------
(* PDFProcessor: pure methods *)

\* None, where a text is expected
NoText == <<>>

\* the vocabulary of _is_financial_heading, in its order
financial_headings ==
    <<<<"i","n","c","o","m","e"," ","s","t","a","t","e","m","e","n","t">>,
      <<"p","r","o","f","i","t"," ","a","n","d"," ","l","o","s","s">>,
      <<"p","&","l">>,
      <<"b","a","l","a","n","c","e"," ","s","h","e","e","t">>,
      <<"s","t","a","t","e","m","e","n","t"," ","o","f"," ","f","i","n","a","n","c","i","a","l"," ","p","o","s","i","t","i","o","n">>,
      <<"c","a","s","h"," ","f","l","o","w"," ","s","t","a","t","e","m","e","n","t">>,
      <<"s","t","a","t","e","m","e","n","t"," ","o","f"," ","c","a","s","h"," ","f","l","o","w","s">>,
      <<"r","e","v","e","n","u","e">>,
      <<"c","o","s","t"," ","o","f"," ","g","o","o","d","s"," ","s","o","l","d">>,
      <<"o","p","e","r","a","t","i","n","g"," ","e","x","p","e","n","s","e","s">>,
      <<"a","s","s","e","t","s">>,
      <<"l","i","a","b","i","l","i","t","i","e","s">>,
      <<"e","q","u","i","t","y">>,
      <<"s","h","a","r","e","h","o","l","d","e","r","s","'"," ","e","q","u","i","t","y">>,
      <<"t","o","t","a","l"," ","r","e","v","e","n","u","e">>,
      <<"g","r","o","s","s"," ","p","r","o","f","i","t">>,
      <<"o","p","e","r","a","t","i","n","g"," ","i","n","c","o","m","e">>,
      <<"n","e","t"," ","i","n","c","o","m","e">>,
      <<"c","a","s","h"," ","a","n","d"," ","c","a","s","h"," ","e","q","u","i","v","a","l","e","n","t","s">>>>

\* the vocabulary of _extract_metric_type, in its order
metrics ==
    <<<<"r","e","v","e","n","u","e">>,
      <<"o","p","e","r","a","t","i","n","g"," ","p","r","o","f","i","t">>,
      <<"o","p","e","r","a","t","i","n","g"," ","i","n","c","o","m","e">>,
      <<"n","e","t"," ","i","n","c","o","m","e">>,
      <<"g","r","o","s","s"," ","p","r","o","f","i","t">>,
      <<"c","a","s","h"," ","f","l","o","w">>,
      <<"d","e","b","t">>,
      <<"c","o","s","t"," ","o","f"," ","g","o","o","d","s"," ","s","o","l","d">>,
      <<"e","x","p","e","n","s","e","s">>,
      <<"l","i","a","b","i","l","i","t","i","e","s">>,
      <<"a","s","s","e","t","s">>,
      <<"e","q","u","i","t","y">>>>


\* pdf_processor.py _is_financial_heading
_is_financial_heading(text) ==
    LET text_lower == Strip(Lower(text))
    IN  \E k \in 1..Len(financial_headings) : Contains(text_lower, financial_headings[k])

\* pdf_processor.py _extract_year: re.search(r"(20\d{2}|19\d{2})", text)
_extract_year(text) ==
    LET hits == {i \in 1..(Len(text) - 3) :
                    /\ <<text[i], text[i + 1]>> \in {<<"2", "0">>, <<"1", "9">>}
                    /\ text[i + 2] \in Digits
                    /\ text[i + 3] \in Digits}
    IN  IF hits = {} THEN NoText
        ELSE LET first == CHOOSE i \in hits : \A j \in hits : i <= j
             IN  SubSeq(text, first, first + 3)

\* pdf_processor.py _extract_metric_type
_extract_metric_type(text) ==
    LET text_lower == Lower(text)
        found == {k \in 1..Len(metrics) : Contains(text_lower, metrics[k])}
    IN  IF found = {} THEN NoText
        ELSE metrics[CHOOSE k \in found : \A j \in found : k <= j]

\* the is_heading test of _split_by_headings, on a stripped line
IsHeadingLine(line_stripped) ==
    \/ MatchesHeadingPattern(line_stripped)
    \/ _is_financial_heading(line_stripped)
    \/ /\ Len(line_stripped) > 0
       /\ IsUpper(line_stripped)
       /\ WordCount(line_stripped) <= 8

RECURSIVE SplitLoop(_, _, _, _)
\* the loop of _split_by_headings from line i on, and the final flush
SplitLoop(lines, i, chunks, current_chunk) ==
    IF i > Len(lines)
    THEN IF current_chunk # <<>>
         THEN Append(chunks, Strip(Join(current_chunk, <<" ">>)))
         ELSE chunks
    ELSE LET line_stripped == Strip(lines[i])
         IN  IF IsHeadingLine(line_stripped)
             THEN SplitLoop(lines, i + 1,
                            (IF current_chunk # <<>>
                             THEN Append(chunks, Strip(Join(current_chunk, <<" ">>)))
                             ELSE chunks) \o <<line_stripped>>,
                            <<>>)
             ELSE SplitLoop(lines, i + 1, chunks, Append(current_chunk, lines[i]))

\* pdf_processor.py _split_by_headings
_split_by_headings(text) ==
    SelectSeq(SplitLoop(SplitLines(text), 1, <<>>, <<>>), LAMBDA c : Strip(c) # <<>>)

\* the places where nltk.sent_tokenize may end a sentence: whitespace that
\* follows a sentence-final mark
SentenceBreaks(text) ==
    {i \in 2..Len(text) : text[i] \in Whitespace /\ text[i - 1] \in {".", "!", "?"}}

RECURSIVE CutAt(_, _, _)
\* the sentences of text from position from on, cut at the breaks chosen
CutAt(text, from, breaks) ==
    LET ahead == {b \in breaks : b >= from}
    IN  IF ahead = {} THEN <<Strip(SubSeq(text, from, Len(text)))>>
        ELSE LET b == CHOOSE x \in ahead : \A y \in ahead : x <= y
             IN  <<Strip(SubSeq(text, from, b - 1))>> \o CutAt(text, b + 1, breaks)

\* nltk.sent_tokenize(text): any segmentation at sentence breaks
SentTokenize(text) ==
    {SelectSeq(CutAt(text, 1, breaks), LAMBDA x : x # <<>>) :
        breaks \in SUBSET SentenceBreaks(text)}

RECURSIVE PackLoop(_, _, _, _, _)
\* lines 121-139: the groups of sentences emitted as sub-chunks
PackLoop(sentences, i, temp, groups, size) ==
    IF i > Len(sentences)
    THEN IF temp # <<>> THEN Append(groups, temp) ELSE groups
    ELSE LET grown == Append(temp, sentences[i])
         IN  IF SumLen(grown) > size
             THEN PackLoop(sentences, i + 1, <<>>, Append(groups, grown), size)
             ELSE PackLoop(sentences, i + 1, grown, groups, size)

PackSentences(sentences, size) == PackLoop(sentences, 1, <<>>, <<>>, size)

-----------------------------------------------------------------------------
(* PDFProcessor: inputs *)

\* 'BALANCE SHEET\nCash was 5 in 2023. It grew.'
Text_balance ==
    <<"B","A","L","A","N","C","E"," ","S","H","E","E","T","\n","C","a","s","h"," ","w","a","s"," ","5"," ","i","n"," ","2","0","2","3","."," ","I","t"," ","g","r","e","w",".">>

\* 'One. Two two. Three.'
Text_plain ==
    <<"O","n","e","."," ","T","w","o"," ","t","w","o","."," ","T","h","r","e","e",".">>

\* 'Revenue 2022\nNet income rose.'
Text_revenue ==
    <<"R","e","v","e","n","u","e"," ","2","0","2","2","\n","N","e","t"," ","i","n","c","o","m","e"," ","r","o","s","e",".">>

\* '1.\n  Intro text  \n\nmore'
Text_numbered ==
    <<"1",".","\n"," "," ","I","n","t","r","o"," ","t","e","x","t"," "," ","\n","\n","m","o","r","e">>

\* 'NOTES: A-B\nsee balance\nsheet'
Text_caps ==
    <<"N","O","T","E","S",":"," ","A","-","B","\n","s","e","e"," ","b","a","l","a","n","c","e","\n","s","h","e","e","t">>

\* 'Total was 12345678901234567890 units'
Text_long ==
    <<"T","o","t","a","l"," ","w","a","s"," ","1","2","3","4","5","6","7","8","9","0","1","2","3","4","5","6","7","8","9","0"," ","u","n","i","t","s">>

\* '| FY | 2021 |\n|----|------|\n| x | 7 |'
Table_year ==
    <<"|"," ","F","Y"," ","|"," ","2","0","2","1"," ","|","\n","|","-","-","-","-","|","-","-","-","-","-","-","|","\n","|"," ","x"," ","|"," ","7"," ","|">>

\* '| Debt | 7 |'
Table_metric ==
    <<"|"," ","D","e","b","t"," ","|"," ","7"," ","|">>

\* '| a | b |'
Table_none ==
    <<"|"," ","a"," ","|"," ","b"," ","|">>

\* '| Equity 1999 | Assets 2020 |'
Table_both ==
    <<"|"," ","E","q","u","i","t","y"," ","1","9","9","9"," ","|"," ","A","s","s","e","t","s"," ","2","0","2","0"," ","|">>

\* 'BALANCE SHEET'
HeadingLine ==
    <<"B","A","L","A","N","C","E"," ","S","H","E","E","T">>

\* 'Cash was 5 in 2023. It grew.'
BodyText ==
    <<"C","a","s","h"," ","w","a","s"," ","5"," ","i","n"," ","2","0","2","3","."," ","I","t"," ","g","r","e","w",".">>

\* no PDFProcessor call is running
PdfIdle ==
    /\ entry = NoValue
    /\ ppc = "idle"
    /\ chunk_size = DefaultChunkSize
    /\ pdf_pages = <<>>
    /\ pages_content = <<>>
    /\ page_no = 0
    /\ heading_chunks = <<>>
    /\ table_no = 0
    /\ chunk_no = 0
    /\ documents = <<>>
    /\ origin = <<>>

\* no RAGPipeline request is running
RagIdle ==
    /\ pc = "idle"
    /\ results = <<>>
    /\ docs_with_scores = <<>>
    /\ context = <<>>
    /\ sources = <<>>
    /\ attempt = 0
    /\ answer = <<>>
    /\ inside_think_block = FALSE
    /\ think_buffer = <<>>
    /\ chunk = NoChunk
    /\ token = <<>>
    /\ out = <<>>
    /\ calls = 0
    /\ failures = 0
    /\ sleeps = 0
    /\ fed = 0
    /\ result = NoResult
    /\ raised = NoValue
    /\ llm_text = <<>>
    /\ received = <<>>
    /\ base = 0

-----------------------------------------------------------------------------
(* RAGPipeline.stream_answer *)

\* results the vector store returns in the streaming runs
StreamResultSets == {<<>>, <<Pair(Doc1, 9), Pair(Doc2, 2)>>}

Init ==
    /\ pc = "start"
    /\ results \in StreamResultSets
    /\ docs_with_scores = <<>>
    /\ context = <<>>
    /\ sources = <<>>
    /\ attempt = 0
    /\ answer = <<>>
    /\ inside_think_block = FALSE
    /\ think_buffer = <<>>
    /\ chunk = NoChunk
    /\ token = <<>>
    /\ out = <<>>
    /\ calls = 0
    /\ failures = 0
    /\ sleeps = 0
    /\ fed = 0
    /\ result = NoResult
    /\ raised = NoValue
    /\ llm_text = <<>>
    /\ received = <<>>
    /\ base = 0
    /\ PdfIdle

\* lines 63-78: retrieval, context and sources, before the retry loop
StreamRetrieve ==
    /\ pc = "start"
    /\ docs_with_scores' = _retrieve_documents(results)
    /\ context' = _generate_context([i \in 1..Len(docs_with_scores') |-> docs_with_scores'[i].doc])
    /\ sources' = BuildSources(docs_with_scores')
    /\ pc' = "attempt"
    /\ UNCHANGED <<results, attempt, answer, inside_think_block, think_buffer, chunk,
                   token, out, calls, failures, sleeps, fed, result, raised, llm_text, received, base>>
    /\ UNCHANGED pdfvars

AfterExceptOneMore ==
    /\ failures' = failures + 1
    /\ sleeps' = sleeps + 1
    /\ attempt' = attempt + 1
    /\ pc' = IF attempt + 1 <= max_retries THEN "attempt" ELSE "exhausted"

\* lines 136-138 and the loop header: log, sleep, next attempt or fall out
\* of the loop
AfterExcept ==
    /\ failures' = failures + 1
    /\ sleeps' = sleeps + 1
    /\ attempt' = attempt + 1
    /\ pc' = IF attempt + 1 < max_retries THEN "attempt" ELSE "exhausted"

\* lines 81-93: generate(...) returns a response stream; the attempt's
\* stream state is reset
Generate ==
    /\ pc = "attempt"
    /\ calls' = calls + 1
    /\ answer' = <<>>
    /\ inside_think_block' = FALSE
    /\ think_buffer' = <<>>
    /\ received' = <<>>
    /\ base' = Len(out)
    /\ pc' = "stream"
    /\ UNCHANGED <<results, docs_with_scores, context, sources, attempt, chunk, token,
                   out, failures, sleeps, fed, result, raised, llm_text>>
    /\ UNCHANGED pdfvars

\* lines 81-90, 136-138: generate(...) raises
GenerateRaises ==
    /\ pc = "attempt"
    /\ calls' = calls + 1
    /\ AfterExcept
    /\ UNCHANGED <<results, docs_with_scores, context, sources, answer,
                   inside_think_block, think_buffer, chunk, token, out, fed, result,
                   raised, llm_text, received, base>>
    /\ UNCHANGED pdfvars

NextChunkBadChunkRaises ==
    /\ pc = "stream"
    /\ fed < MaxChunks
    /\ \E c \in Chunks :
         /\ chunk' = c
         /\ fed' = fed + 1
         /\ IF ChunkHasToken(c)
            THEN LET st == StepToken(answer, inside_think_block, think_buffer, c.response)
                 IN  /\ token' = c.response
                     /\ answer' = st.answer
                     /\ inside_think_block' = st.inside
                     /\ think_buffer' = st.buffer
                     /\ out' = out \o st.fwd
                     /\ received' = Append(received, c.response)
                     /\ UNCHANGED <<pc, attempt, failures, sleeps>>
            ELSE /\ AfterExcept
                 /\ UNCHANGED <<token, answer, inside_think_block, think_buffer, out,
                                received>>
    /\ UNCHANGED <<results, docs_with_scores, context, sources, calls, result, raised,
                   llm_text, base>>
    /\ UNCHANGED pdfvars

\* lines 95-128: one iteration of `for chunk in response`
NextChunk ==
    /\ pc = "stream"
    /\ fed < MaxChunks
    /\ \E c \in Chunks :
         /\ chunk' = c
         /\ fed' = fed + 1
         /\ IF ChunkHasToken(c)
            THEN LET st == StepToken(answer, inside_think_block, think_buffer, c.response)
                 IN  /\ token' = c.response
                     /\ answer' = st.answer
                     /\ inside_think_block' = st.inside
                     /\ think_buffer' = st.buffer
                     /\ out' = out \o st.fwd
                     /\ received' = Append(received, c.response)
            ELSE UNCHANGED <<token, answer, inside_think_block, think_buffer, out,
                             received>>
    /\ UNCHANGED <<pc, results, docs_with_scores, context, sources, attempt, calls,
                   failures, sleeps, result, raised, llm_text, base>>
    /\ UNCHANGED pdfvars

\* lines 95, 136-138: the response stream raises while it is iterated
StreamRaises ==
    /\ pc = "stream"
    /\ AfterExcept
    /\ UNCHANGED <<results, docs_with_scores, context, sources, answer,
                   inside_think_block, think_buffer, chunk, token, out, calls, fed,
                   result, raised, llm_text, received, base>>
    /\ UNCHANGED pdfvars

StreamEndNoReturn ==
    /\ pc = "stream"
    /\ \E work \in WorkMillis :
         out' = Append(out, EndMetaFragment(sources, Round2(2000 * sleeps + work)))
    /\ attempt' = attempt + 1
    /\ pc' = IF attempt + 1 < max_retries THEN "attempt" ELSE "exhausted"
    /\ UNCHANGED <<results, docs_with_scores, context, sources, answer,
                   inside_think_block, think_buffer, chunk, token, calls, failures,
                   sleeps, fed, result, raised, llm_text, received, base>>
    /\ UNCHANGED pdfvars

\* lines 130-135: the stream is exhausted; the metadata fragment, then return
StreamEnd ==
    /\ pc = "stream"
    /\ \E work \in WorkMillis :
         out' = Append(out, EndMetaFragment(sources, Round2(2000 * sleeps + work)))
    /\ pc' = "done"
    /\ UNCHANGED <<results, docs_with_scores, context, sources, attempt, answer,
                   inside_think_block, think_buffer, chunk, token, calls, failures,
                   sleeps, fed, result, raised, llm_text, received, base>>
    /\ UNCHANGED pdfvars

\* line 139: the loop ended without a return
YieldError ==
    /\ pc = "exhausted"
    /\ out' = Append(out, ErrorFragment)
    /\ pc' = "done"
    /\ UNCHANGED <<results, docs_with_scores, context, sources, attempt, answer,
                   inside_think_block, think_buffer, chunk, token, calls, failures,
                   sleeps, fed, result, raised, llm_text, received, base>>
    /\ UNCHANGED pdfvars

Next ==
    \/ StreamRetrieve
    \/ Generate
    \/ GenerateRaises
    \/ NextChunk
    \/ StreamRaises
    \/ StreamEnd
    \/ YieldError

Spec == Init /\ [][Next]_vars

-----------------------------------------------------------------------------
(* RAGPipeline.generate_answer (complete mode) *)

\* the methods class RAGPipeline defines (lines 15, 27, 52, 59 and 62)
RAGPipelineMethods ==
    {"__init__", "generate_answer", "_retrieve_documents", "_generate_context",
     "stream_answer"}

\* texts the model collaborator can generate
Answers == {<<"4","2">>, <<"R","e","v","e","n","u","e"," ","r","o","s","e">>}

InitComplete ==
    /\ pc = "ga_start"
    /\ results \in ResultSets
    /\ llm_text \in Answers
    /\ docs_with_scores = <<>>
    /\ context = <<>>
    /\ sources = <<>>
    /\ attempt = 0
    /\ answer = <<>>
    /\ inside_think_block = FALSE
    /\ think_buffer = <<>>
    /\ chunk = NoChunk
    /\ token = <<>>
    /\ out = <<>>
    /\ calls = 0
    /\ failures = 0
    /\ sleeps = 0
    /\ fed = 0
    /\ result = NoResult
    /\ raised = NoValue
    /\ received = <<>>
    /\ base = 0
    /\ PdfIdle

\* lines 30-32: retrieval and context
GenerateAnswerRetrieve ==
    /\ pc = "ga_start"
    /\ docs_with_scores' = _retrieve_documents(results)
    /\ context' = _generate_context([i \in 1..Len(docs_with_scores') |-> docs_with_scores'[i].doc])
    /\ pc' = "ga_llm"
    /\ UNCHANGED <<results, sources, attempt, answer, inside_think_block, think_buffer,
                   chunk, token, out, calls, failures, sleeps, fed, result, raised,
                   llm_text, received, base>>
    /\ UNCHANGED pdfvars

\* lines 33-50: the attribute lookup self._generate_llm_response, the call,
\* the sources list and the returned object
GenerateAnswerFinish ==
    /\ pc = "ga_llm"
    /\ IF "_generate_llm_response" \in RAGPipelineMethods
       THEN /\ calls' = calls + 1
            /\ answer' = llm_text
            /\ sources' = BuildSources(docs_with_scores)
            /\ \E work \in WorkMillis :
                 result' = [returned |-> TRUE,
                            answer |-> llm_text,
                            sources |-> BuildSources(docs_with_scores),
                            processing_time |-> Round2(work)]
            /\ pc' = "ga_done"
            /\ UNCHANGED raised
       ELSE /\ raised' = "AttributeError"
            /\ pc' = "ga_done"
            /\ UNCHANGED <<calls, answer, sources, result>>
    /\ UNCHANGED <<results, docs_with_scores, context, attempt, inside_think_block,
                   think_buffer, chunk, token, out, failures, sleeps, fed, llm_text,
                   received, base>>
    /\ UNCHANGED pdfvars

NextComplete ==
    \/ GenerateAnswerRetrieve
    \/ GenerateAnswerFinish

SpecComplete == InitComplete /\ [][NextComplete]_vars

-----------------------------------------------------------------------------
(* PDFProcessor: process_pdf, extract_text_from_pdf, split_into_chunks *)

\* configured chunk sizes: two small ones, so that short texts are over-long
\* heading blocks, and the default
ChunkSizes == {SmallChunkSize, 2 * SmallChunkSize, DefaultChunkSize}

\* what pdfplumber and _extract_financial_tables give for a page: the text
\* of page.extract_text() and the rendered table strings
PageTexts == {Text_balance, Text_plain, Text_revenue, Text_numbered, Text_caps,
              Text_long, NoText}
TableLists == {<<>>, <<Table_year>>, <<Table_metric>>, <<Table_none>>, <<Table_both>>,
               <<Table_none, Table_year>>}
RawPages == [text : PageTexts, tables : TableLists]
SecondPages == {[text |-> Text_revenue, tables |-> <<Table_none>>]}
PdfInputs == {<<p>> : p \in RawPages} \cup {<<p, q>> : p \in RawPages, q \in SecondPages}

\* one entry of pages_content
PageEntry(i, text, tables) ==
    [page |-> i, content |-> text, tables |-> tables, metadata |-> [page |-> i]]

\* lines 28-43: the pages_content extract_text_from_pdf builds
ExtractedPages(pages) ==
    [i \in 1..Len(pages) |->
        PageEntry(i, CollapseWhitespace(pages[i].text), pages[i].tables)]

\* pages_content a caller of split_into_chunks passes: the same entries,
\* with text that still has its line breaks
DirectPages(pages) ==
    [i \in 1..Len(pages) |-> PageEntry(i, pages[i].text, pages[i].tables)]

InitPdf ==
    /\ RagIdle
    /\ chunk_size \in ChunkSizes
    /\ entry \in {"process_pdf", "split_into_chunks"}
    /\ \E pages \in PdfInputs :
         IF entry = "process_pdf"
         THEN pdf_pages = pages /\ pages_content = <<>> /\ ppc = "extract"
         ELSE pdf_pages = <<>> /\ pages_content = DirectPages(pages) /\ ppc = "page"
    /\ page_no = 1
    /\ heading_chunks = <<>>
    /\ table_no = 1
    /\ chunk_no = 1
    /\ documents = <<>>
    /\ origin = <<>>

\* lines 149, 26-43: process_pdf calls extract_text_from_pdf
ExtractText ==
    /\ ppc = "extract"
    /\ pages_content' = ExtractedPages(pdf_pages)
    /\ ppc' = "page"
    /\ UNCHANGED <<entry, chunk_size, pdf_pages, page_no, heading_chunks, table_no,
                   chunk_no, documents, origin>>
    /\ UNCHANGED ragvars

\* lines 75-83: the next page of split_into_chunks
BeginPage ==
    /\ ppc = "page"
    /\ page_no <= Len(pages_content)
    /\ heading_chunks' = _split_by_headings(pages_content[page_no].content)
    /\ table_no' = 1
    /\ chunk_no' = 1
    /\ ppc' = "tables"
    /\ UNCHANGED <<entry, chunk_size, pdf_pages, pages_content, page_no, documents,
                   origin>>
    /\ UNCHANGED ragvars

\* lines 87-91: the last chunk of the page that is a financial heading
ContextHeading(chunks) ==
    LET matching == {i \in 1..Len(chunks) : _is_financial_heading(chunks[i])}
    IN  IF matching = {} THEN NoText
        ELSE chunks[CHOOSE i \in matching : \A j \in matching : i >= j]

TableYearHeadingFirst(table_str, context_heading) ==
    IF context_heading # NoText /\ _extract_year(context_heading) # NoText
    THEN _extract_year(context_heading)
    ELSE _extract_year(table_str)

\* lines 92-94
TableYear(table_str, context_heading) ==
    IF _extract_year(table_str) # NoText THEN _extract_year(table_str)
    ELSE IF context_heading # NoText THEN _extract_year(context_heading)
    ELSE NoText

\* lines 95-97
TableMetric(table_str, context_heading) ==
    IF _extract_metric_type(table_str) # NoText THEN _extract_metric_type(table_str)
    ELSE IF context_heading # NoText THEN _extract_metric_type(context_heading)
    ELSE NoText

\* lines 98-101 and 115-118: the optional tags
WithTags(meta, year, metric) ==
    (IF metric # NoText THEN [metric_type |-> metric] ELSE <<>>)
        @@ (IF year # NoText THEN [year |-> year] ELSE <<>>)
        @@ meta

\* lines 84-108: one table of the page
TableStep ==
    /\ ppc = "tables"
    /\ table_no <= Len(pages_content[page_no].tables)
    /\ LET table_str == pages_content[page_no].tables[table_no]
           context_heading == ContextHeading(heading_chunks)
           doc_metadata ==
               WithTags([chunk_type |-> "table"] @@ pages_content[page_no].metadata,
                        TableYear(table_str, context_heading),
                        TableMetric(table_str, context_heading))
           page_content == IF context_heading # NoText
                           THEN context_heading \o <<"\n">> \o table_str
                           ELSE table_str
       IN  /\ documents' = Append(documents,
                                  [page_content |-> page_content, metadata |-> doc_metadata])
           /\ origin' = Append(origin, [kind |-> "table", text |-> table_str,
                                        headings |-> heading_chunks, sentences |-> <<>>])
    /\ table_no' = table_no + 1
    /\ UNCHANGED <<entry, ppc, chunk_size, pdf_pages, pages_content, page_no,
                   heading_chunks, chunk_no>>
    /\ UNCHANGED ragvars

\* lines 109-143: one heading chunk of the page, re-split into sentences
\* when it is longer than twice the chunk size
HeadingStep ==
    /\ ppc = "tables"
    /\ table_no > Len(pages_content[page_no].tables)
    /\ chunk_no <= Len(heading_chunks)
    /\ LET block == heading_chunks[chunk_no]
           doc_metadata ==
               WithTags([chunk_index |-> chunk_no - 1] @@ [chunk_type |-> "heading"]
                            @@ pages_content[page_no].metadata,
                        _extract_year(block), _extract_metric_type(block))
       IN  IF Len(block) > chunk_size * 2
           THEN \E sentences \in SentTokenize(block) :
                  LET groups == PackSentences(sentences, chunk_size)
                  IN  /\ documents' = documents \o
                             [g \in 1..Len(groups) |->
                                 [page_content |-> Join(groups[g], <<" ">>),
                                  metadata |-> doc_metadata]]
                      /\ origin' = origin \o
                             [g \in 1..Len(groups) |->
                                 [kind |-> "sub", text |-> block,
                                  headings |-> heading_chunks, sentences |-> groups[g]]]
           ELSE /\ documents' = Append(documents,
                                       [page_content |-> block, metadata |-> doc_metadata])
                /\ origin' = Append(origin, [kind |-> "whole", text |-> block,
                                             headings |-> heading_chunks,
                                             sentences |-> <<>>])
    /\ chunk_no' = chunk_no + 1
    /\ UNCHANGED <<entry, ppc, chunk_size, pdf_pages, pages_content, page_no,
                   heading_chunks, table_no>>
    /\ UNCHANGED ragvars

\* line 75: both loops of the page are finished
EndPage ==
    /\ ppc = "tables"
    /\ table_no > Len(pages_content[page_no].tables)
    /\ chunk_no > Len(heading_chunks)
    /\ page_no' = page_no + 1
    /\ ppc' = "page"
    /\ UNCHANGED <<entry, chunk_size, pdf_pages, pages_content, heading_chunks, table_no,
                   chunk_no, documents, origin>>
    /\ UNCHANGED ragvars

\* lines 144-145, 151-152: the documents are returned
ReturnDocuments ==
    /\ ppc = "page"
    /\ page_no > Len(pages_content)
    /\ ppc' = "done"
    /\ UNCHANGED <<entry, chunk_size, pdf_pages, pages_content, page_no, heading_chunks,
                   table_no, chunk_no, documents, origin>>
    /\ UNCHANGED ragvars

NextPdf ==
    \/ ExtractText
    \/ BeginPage
    \/ TableStep
    \/ HeadingStep
    \/ EndPage
    \/ ReturnDocuments

SpecPdf == InitPdf /\ [][NextPdf]_vars

-----------------------------------------------------------------------------
(* The streaming state machine as section 4.2 of the specification states   *)
(* it: NORMAL forwards a token, or the text before an opening marker;       *)
(* THINKING only buffers, and forwards the text after the closing marker.   *)

ClaimedStart == [thinking |-> FALSE, buffer |-> <<>>, fwd |-> <<>>, closed |-> 0]

ClaimedStep(st, tok) ==
    IF ~st.thinking
    THEN IF Contains(tok, OpenMarker)
         THEN LET before == BeforeFirst(tok, OpenMarker)
              IN  [st EXCEPT !.thinking = TRUE,
                             !.fwd = IF before # <<>> THEN Append(@, before) ELSE @]
         ELSE [st EXCEPT !.fwd = IF tok # <<>> THEN Append(@, tok) ELSE @]
    ELSE LET nb == st.buffer \o tok
         IN  IF Contains(nb, CloseMarker)
             THEN LET after == SplitOnce(nb, CloseMarker)[2]
                  IN  [thinking |-> FALSE, buffer |-> <<>>,
                       fwd |-> IF after # <<>> THEN Append(st.fwd, after) ELSE st.fwd,
                       closed |-> st.closed + 1]
             ELSE [st EXCEPT !.buffer = nb]

RECURSIVE ClaimedRun(_)
ClaimedRun(toks) ==
    IF toks = <<>> THEN ClaimedStart
    ELSE ClaimedStep(ClaimedRun(Take(toks, Len(toks) - 1)), toks[Len(toks)])

\* the fragments the current attempt has forwarded
Forwarded == SubSeq(out, base + 1, Len(out))

IsEndMeta(f) == StartsWith(f, EndMetaTag)

\* the request returned after an attempt whose stream was exhausted
Succeeded == pc = "done" /\ failures < calls

\* the request ended after every attempt ended in the except branch
AllFailed == pc = "done" /\ failures = calls

-----------------------------------------------------------------------------
(* Claims *)

\* C1: while inside_think_block is true, a received token is only appended
\* to think_buffer, and nothing is forwarded except the non-empty text that
\* follows "</think>" in the buffer.
C1_ThinkingOnlyBuffers ==
    [][(pc = "stream" /\ inside_think_block /\ received' # received) =>
          LET nb == think_buffer \o token'
              closes == Contains(nb, CloseMarker)
          IN  /\ \/ out' = out
                 \/ /\ closes
                    /\ SplitOnce(nb, CloseMarker)[2] # <<>>
                    /\ out' = Append(out, SplitOnce(nb, CloseMarker)[2])
              /\ IF closes THEN think_buffer' = <<>> ELSE think_buffer' = nb]_vars

\* C2: when the attempt's tokens open a reasoning block in NORMAL state and
\* a later token closes it, the fragments forwarded by the attempt are the
\* NORMAL tokens, the text before the opening marker and the text after the
\* closing marker, in order, and the accumulated answer is their
\* concatenation.
C2_ForwardedAsClaimed ==
    (pc = "stream" /\ ClaimedRun(received).closed >= 1) =>
        /\ Forwarded = ClaimedRun(received).fwd
        /\ answer = Concat(Forwarded)

\* C3: when every attempt fails, exactly 5 calls were made, the stream ends
\* with exactly one terminal error fragment, which is last, no [END_META]
\* fragment was emitted and no exception left the generator.
C3_RetryExhaustion ==
    AllFailed =>
        /\ calls = 5
        /\ out # <<>>
        /\ out[Len(out)] = ErrorFragment
        /\ Cardinality({i \in 1..Len(out) : out[i] = ErrorFragment}) = 1
        /\ \A i \in 1..Len(out) : ~IsEndMeta(out[i])
        /\ raised = NoValue

C3_Witness == AllFailed /\ fed > 0 /\ Len(out) > 1

\* C4: when an attempt's stream is exhausted without error, exactly one
\* [END_META] fragment is emitted, carrying the sources and the rounded
\* elapsed time; it is the last fragment, no attempt follows it and no error
\* fragment is emitted.
C4_EndMetaIsLast ==
    Succeeded =>
        /\ out # <<>>
        /\ \E work \in WorkMillis :
             out[Len(out)] = EndMetaTag \o MetaJson(BuildSources(_retrieve_documents(results)),
                                                    Round2(2000 * sleeps + work))
        /\ Cardinality({i \in 1..Len(out) : IsEndMeta(out[i])}) = 1
        /\ \A i \in 1..Len(out) : out[i] # ErrorFragment
        /\ calls = failures + 1
        /\ ~ENABLED Next

C4_Witness == Succeeded /\ failures > 0 /\ sources # <<>> /\ Len(out) > 1

\* the positions of the store's results whose score is not below the threshold
KeptPositions == {i \in 1..Len(results) : ~(results[i].score < similarity_threshold)}

\* docs_with_scores lists exactly the results at KeptPositions, in their order
RetainedInOrder ==
    \E f \in [1..Len(docs_with_scores) -> KeptPositions] :
        /\ \A i \in KeptPositions : \E j \in 1..Len(docs_with_scores) : f[j] = i
        /\ \A j, k \in 1..Len(docs_with_scores) : j < k => f[j] < f[k]
        /\ \A j \in 1..Len(docs_with_scores) : docs_with_scores[j] = results[f[j]]

\* C5: _retrieve_documents keeps exactly the returned pairs whose score is
\* at least the threshold (equality keeps), in the store's order; when every
\* score is below it the result and the context are empty and nothing is
\* raised.
C5_RetrievalFilter ==
    pc = "ga_llm" =>
        /\ RetainedInOrder
        /\ raised = NoValue
        /\ (\A i \in 1..Len(results) : results[i].score < similarity_threshold) =>
               (docs_with_scores = <<>> /\ context = <<>>)

C5_Witness ==
    /\ pc = "ga_llm"
    /\ Len(results) = 3
    /\ results[1].score = 2
    /\ results[2].score = similarity_threshold
    /\ results[3].score = 9
    /\ Len(docs_with_scores) = 2

\* C6: generate_answer returns {answer, sources, processing_time} with the
\* model's full text as the answer and one source per retained chunk, in
\* retained order, and raises nothing.
C6_CompleteModeReturns ==
    pc = "ga_done" =>
        /\ raised = NoValue
        /\ result.returned
        /\ result.answer = llm_text
        /\ Len(result.sources) = Len(docs_with_scores)
        /\ \A i \in 1..Len(docs_with_scores) :
             /\ result.sources[i].content = docs_with_scores[i].doc.page_content
             /\ result.sources[i].score = docs_with_scores[i].score

\* C7: process_pdf on a single page without tables whose text is the line
\* "BALANCE SHEET" followed by a line of body text gives at least two
\* chunks: a heading chunk whose content is the heading line, and another
\* chunk holding the body text, both with page = 1.
C7_HeadingAndBodyChunks ==
    (/\ entry = "process_pdf"
     /\ ppc = "done"
     /\ chunk_size = DefaultChunkSize
     /\ pdf_pages = <<[text |-> Text_balance, tables |-> <<>>]>>) =>
        /\ Len(documents) >= 2
        /\ \E i, j \in 1..Len(documents) :
             /\ i # j
             /\ documents[i].metadata.chunk_type = "heading"
             /\ documents[i].page_content = HeadingLine
             /\ documents[i].metadata.page = 1
             /\ Contains(documents[j].page_content, BodyText)
             /\ documents[j].metadata.page = 1

\* C8: every sub-chunk made by re-splitting an over-long heading block is
\* at most chunk_size long, unless it is one single sentence that alone is
\* longer than chunk_size.
C8_SubChunksWithinChunkSize ==
    \A i \in 1..Len(documents) :
        origin[i].kind = "sub" =>
            \/ Len(documents[i].page_content) <= chunk_size
            \/ /\ Len(origin[i].sentences) = 1
               /\ Len(origin[i].sentences[1]) > chunk_size

\* the documents made from the same heading block as document i
Siblings(i) ==
    {j \in 1..Len(documents) :
        /\ origin[j].kind = origin[i].kind
        /\ documents[j].metadata.page = documents[i].metadata.page
        /\ documents[j].metadata.chunk_index = documents[i].metadata.chunk_index}

\* C9: no heading chunk is longer than 2 x chunk_size: a heading block above
\* that length is emitted as two or more sub-chunks.
C9_NoOverlongHeadingChunk ==
    \A i \in 1..Len(documents) :
        documents[i].metadata.chunk_type = "heading" =>
            /\ Len(documents[i].page_content) <= 2 * chunk_size
            /\ (origin[i].kind = "sub" /\ chunk_no > documents[i].metadata.chunk_index + 1)
                   => Cardinality(Siblings(i)) >= 2

\* the context heading of a table: the nearest heading chunk, searching
\* backward, that matches the financial-heading vocabulary
NearestFinancialHeading(chunks) ==
    IF \E k \in 1..Len(chunks) : _is_financial_heading(chunks[k])
    THEN chunks[CHOOSE k \in 1..Len(chunks) :
                    /\ _is_financial_heading(chunks[k])
                    /\ \A later \in (k + 1)..Len(chunks) : ~_is_financial_heading(chunks[later])]
    ELSE NoText

\* tag `key` of metadata md is the match in the table text if there is one,
\* else the match in the context heading, else unset
TagFollowsRule(md, key, in_table, in_heading) ==
    IF in_table # NoText THEN key \in DOMAIN md /\ md[key] = in_table
    ELSE IF in_heading # NoText THEN key \in DOMAIN md /\ md[key] = in_heading
    ELSE key \notin DOMAIN md

\* C10: a table chunk's year is the first year match of the table text, else
\* that of the context heading, else unset; its metric_type is the first
\* vocabulary term found in the table text, else in the context heading,
\* else unset. Without context heading and own match it carries neither.
C10_TableTags ==
    \A i \in 1..Len(documents) :
        origin[i].kind = "table" =>
            LET md == documents[i].metadata
                heading == NearestFinancialHeading(origin[i].headings)
            IN  /\ md.chunk_type = "table"
                /\ TagFollowsRule(md, "year", _extract_year(origin[i].text),
                                  IF heading = NoText THEN NoText ELSE _extract_year(heading))
                /\ TagFollowsRule(md, "metric_type", _extract_metric_type(origin[i].text),
                                  IF heading = NoText THEN NoText
                                  ELSE _extract_metric_type(heading))

C10_Witness ==
    \E i, j \in 1..Len(documents) :
        /\ origin[i].kind = "table" /\ origin[j].kind = "table"
        /\ origin[i].text = Table_none
        /\ NearestFinancialHeading(origin[i].headings) # NoText
        /\ "year" \in DOMAIN documents[i].metadata
        /\ documents[i].metadata.year = <<"2","0","2","3">>
        /\ "metric_type" \notin DOMAIN documents[i].metadata
        /\ origin[j].text = Table_year
        /\ "year" \in DOMAIN documents[j].metadata
        /\ documents[j].metadata.year = <<"2","0","2","1">>

\* C11: a chunk that is neither a dict with a "response" key nor an object
\* with a response attribute is skipped: nothing is forwarded, the answer,
\* the THINKING flag, the buffer and the last token stay as they were, and
\* the attempt goes on (it neither ends nor restarts), so the chunks that
\* follow are processed from the state the chunk before it left.
C11_BadChunkSkipped ==
    [][(pc = "stream" /\ fed' = fed + 1 /\ ~ChunkHasToken(chunk')) =>
          /\ out' = out
          /\ answer' = answer
          /\ inside_think_block' = inside_think_block
          /\ think_buffer' = think_buffer
          /\ token' = token
          /\ received' = received
          /\ pc' = "stream"
          /\ attempt' = attempt
          /\ calls' = calls
          /\ failures' = failures
          /\ sleeps' = sleeps]_vars

\* a malformed chunk was skipped in the middle of a reasoning block, after
\* text was forwarded, and the closing token that followed was processed
C11_Witness ==
    /\ pc = "stream"
    /\ fed = Len(received) + 1
    /\ received = <<Tok_hello, Tok_open, Tok_close>>
    /\ Forwarded = <<Tok_hello, <<" ","w","o","r","l","d">> >>
    /\ failures = 0

\* C12: the sleep is taken between consecutive attempts only: a request
\* whose n-th attempt is its last has slept n - 1 times (4 times when all
\* 5 attempts fail).
C12_SleepsBetweenAttempts ==
    pc = "done" => sleeps = calls - 1

\* the answer fragments the caller has seen: all but the final fragment
VisibleAnswer == SubSeq(out, 1, Len(out) - 1)

\* the fragments forwarded by the last attempt, without the final fragment
LastAttemptAnswer == SubSeq(out, base + 1, Len(out) - 1)

\* C13: a stream that ends with [END_META] holds exactly the fragments of
\* the one successful attempt, and a stream that ends with the error
\* fragment holds no answer fragment: nothing forwarded during a failed
\* attempt is in it.
C13_NoFragmentsOfFailedAttempts ==
    /\ Succeeded => VisibleAnswer = LastAttemptAnswer
    /\ AllFailed => VisibleAnswer = <<>>

====
